---- MODULE Spec2Model ----
(***************************************************************************)
(* A model of the log warehouse: the dataset loader of logs.py (one parser *)
(* per source, whole-table replace into logs.db), the batch driver main,   *)
(* the schema normaliser standardize, and the filter query layer of        *)
(* dash.py (build_where_clause, load_filtered_data).                       *)
(*                                                                         *)
(* A raw line is abstracted to what the parsers look at:                   *)
(*   ntok  the number of whitespace-separated tokens of line.strip()       *)
(*   gram  whether the regular expression of the file's own format matches *)
(*   text  the free text the parser extracts as Content                    *)
(***************************************************************************)
EXTENDS Integers, Sequences, FiniteSets, TLC

VARIABLES
    db,           \* logs.db: table name -> table, or NoTable
    name,         \* the source load_dataset_to_sqlite is called for
    raw,          \* the extracted dataset directory of that source
    outcome,      \* what the last load_dataset_to_sqlite call did
    runs,         \* number of load_dataset_to_sqlite calls made so far
    pc,           \* position of main: "idle", "download", "load", "close", "done", "crashed"
    idx,          \* index into DATA of main's loop
    attempted,    \* the sources main has handed to load_dataset_to_sqlite
    batches,      \* number of times main was started
    filters,      \* the FilterSpec handed to build_where_clause
    tbl,          \* the table load_filtered_data queries
    limit,        \* the limit argument of load_filtered_data
    result,       \* what build_where_clause / load_filtered_data produced
    sdf,          \* the frame handed to standardize
    content_col,  \* the content column name handed to standardize
    source,       \* the source name handed to standardize
    std,          \* what standardize produced
    job,          \* the metadata script that is running, and where it is
    filters_df    \* the frame get_filter_options gave the sidebar

vars == <<db, name, raw, outcome, runs, pc, idx, attempted, batches,
          filters, tbl, limit, result, sdf, content_col, source, std, job,
          filters_df>>

loadVars  == <<db, name, raw, outcome, runs>>
mainVars  == <<pc, idx, attempted, batches>>
queryVars == <<filters, tbl, limit, result>>
stdVars   == <<sdf, content_col, source, std>>

(***************************************************************************)
(* Bounds                                                                  *)
(***************************************************************************)
MaxLines == 2        \* lines per dataset directory
MaxRuns == 2         \* load_dataset_to_sqlite calls per behaviour of SpecLoad
MaxBatches == 2      \* runs of main per behaviour of SpecMain
MaxVals == 2         \* accepted values per column of a FilterSpec
MaxRows == 2         \* rows of a queried table
MaxLimit == 3        \* largest limit argument tried
MaxSources == 2      \* sources (a prefix of DATA) the pipeline of SpecPipe ingests

Min(a, b) == IF a < b THEN a ELSE b

SeqsUpTo(S, n) == UNION {[1..k -> S] : k \in 0..n}

(***************************************************************************)
(* logs.py: configuration                                                  *)
(***************************************************************************)
DATA == <<"bgl", "openstack", "mac", "android_v1", "openssh">>

Sources == {DATA[i] : i \in 1..Len(DATA)}

table_name(n) == "logs_" \o n

TableNames == {table_name(n) : n \in Sources}

NoTable == [cols |-> <<>>, rows |-> <<>>, exists |-> FALSE]

Table(cols, rows) == [cols |-> cols, rows |-> rows, exists |-> TRUE]

(***************************************************************************)
(* Raw input                                                               *)
(***************************************************************************)
Texts == {"t1", "t2"}

BlankLine == [ntok |-> 0, gram |-> FALSE, text |-> ""]

\* 4 tokens: too few for every format.  6 tokens: enough for the 6-token
\* split and for the regular expressions, fewer than the 10 of a BGL record.
Lines ==
    {BlankLine}
    \cup {[ntok |-> 4, gram |-> FALSE, text |-> t] : t \in Texts}
    \cup {[ntok |-> n, gram |-> g, text |-> t] :
             n \in {6, 10}, g \in BOOLEAN, t \in Texts}

Files == SeqsUpTo(Lines, MaxLines)

MissingDir == [found |-> FALSE, files |-> <<>>]

\* openstack reads two fixed file names, every other source the first file
\* whose name matches its pattern.
Dirs(n) ==
    {MissingDir}
    \cup (IF n = "openstack"
          THEN {[found |-> TRUE, files |-> p] :
                   p \in {q \in Files \X Files : Len(q[1]) + Len(q[2]) <= MaxLines}}
          ELSE {[found |-> TRUE, files |-> <<f>>] : f \in Files})

(***************************************************************************)
(* Frames: an error, or column names and rows.  A row keeps its LineId     *)
(* (0 while none is assigned), the number of native columns that hold a    *)
(* value (the rest are NaN) and its Content.                               *)
(***************************************************************************)
Raise(e) == [err |-> e, cols |-> <<>>, rows |-> <<>>]

Frame(cols, rows) == [err |-> "", cols |-> cols, rows |-> rows]

Row(id, native, content) == [LineId |-> id, Native |-> native, Content |-> content]

MapRows(file, native) ==
    [i \in 1..Len(file) |-> Row(0, Min(file[i].ntok, native), file[i].text)]

Matches(l) == l.gram

\* Mutant: LineId counted from 0, range(len(df)).
insert_LineId_from_zero(df) ==
    Frame(<<"LineId">> \o df.cols,
          [i \in 1..Len(df.rows) |->
              Row(i - 1, df.rows[i].Native, df.rows[i].Content)])

\* df.insert(0, "LineId", range(1, len(df) + 1))
insert_LineId(df) ==
    Frame(<<"LineId">> \o df.cols,
          [i \in 1..Len(df.rows) |->
              Row(i, df.rows[i].Native, df.rows[i].Content)])

parse_mac_log(file) ==
    Frame(<<"Month", "Date", "Time", "User", "Component", "PID", "Content">>,
          MapRows(SelectSeq(file, Matches), 6))

parse_android_log(file) ==
    Frame(<<"Date", "Time", "Pid", "Tid", "Level", "Component", "Content">>,
          MapRows(SelectSeq(file, Matches), 6))

\* pd.DataFrame(rows) of no rows has no columns at all.
load_openstack_logs(files) ==
    LET rows == MapRows(SelectSeq(files[1] \o files[2], Matches), 7)
        cols == IF rows = <<>> THEN <<>>
                ELSE <<"Logrecord", "Date", "Time", "Pid", "Level",
                       "Component", "ADDR", "Content">>
    IN  insert_LineId(Frame(cols, rows))

find_file(dir) == dir.found

NonBlank(l) == l.ntok > 0

\* pd.read_csv(sep=r"\s+", names=<9 names>, usecols=range(9), engine="python"):
\* a blank line gives no row; every other line gives a row of its first nine
\* tokens, padded with NaN when it has fewer.
read_csv(file) ==
    Frame(<<"Label", "Timestamp", "Date", "Node", "Time", "NodeRepeat",
            "Type", "Component", "Level">>,
          MapRows(SelectSeq(file, NonBlank), 9))

\* [line.strip().split(maxsplit=9)[-1] for line in f]: one entry per raw
\* line; [-1] of the empty token list of a blank line raises IndexError.
contents(file) ==
    IF \E i \in 1..Len(file) : file[i].ntok = 0
    THEN Raise("IndexError")
    ELSE Frame(<<"Content">>, MapRows(file, 0))

\* df["Content"] = contents: a list of another length than the frame raises
\* ValueError, except that a frame without rows takes its rows from the list.
set_Content(df, c) ==
    IF Len(df.rows) = 0 /\ Len(c.rows) > 0
    THEN Frame(df.cols \o <<"Content">>, c.rows)
    ELSE IF Len(df.rows) # Len(c.rows)
    THEN Raise("ValueError")
    ELSE Frame(df.cols \o <<"Content">>,
               [i \in 1..Len(df.rows) |->
                   Row(0, df.rows[i].Native, c.rows[i].Content)])

\* Mutant: a blank line contributes an empty Content and the Content list is
\* cut or padded to the structured rows instead of being compared with them.
bgl_frame_truncating(dir) ==
    IF ~find_file(dir) THEN Raise("FileNotFoundError")
    ELSE LET df == read_csv(dir.files[1])
             c  == MapRows(dir.files[1], 0)
         IN  insert_LineId(
                 Frame(df.cols \o <<"Content">>,
                       [i \in 1..Len(df.rows) |->
                           Row(0, df.rows[i].Native, c[i].Content)]))

bgl_frame(dir) ==
    IF ~find_file(dir) THEN Raise("FileNotFoundError")
    ELSE LET df == read_csv(dir.files[1])
             c  == contents(dir.files[1])
         IN  IF c.err # "" THEN c
             ELSE LET d == set_Content(df, c)
                  IN  IF d.err # "" THEN d ELSE insert_LineId(d)

SixTokens(l) == l.ntok >= 6

openssh_frame(dir) ==
    IF ~find_file(dir) THEN Raise("FileNotFoundError")
    ELSE insert_LineId(
             Frame(<<"Date", "Day", "Time", "Component", "Pid", "Content">>,
                   MapRows(SelectSeq(dir.files[1], SixTokens), 5)))

openstack_frame(dir) ==
    IF ~dir.found THEN Raise("FileNotFoundError")
    ELSE load_openstack_logs(dir.files)

mac_frame(dir) ==
    IF ~find_file(dir) THEN Raise("FileNotFoundError")
    ELSE insert_LineId(parse_mac_log(dir.files[1]))

android_frame(dir) ==
    IF ~find_file(dir) THEN Raise("FileNotFoundError")
    ELSE insert_LineId(parse_android_log(dir.files[1]))

\* The frame a source's branch hands to to_sql, or the exception it raises.
branch_frame(n, dir) ==
    CASE n = "bgl"        -> bgl_frame(dir)
      [] n = "openssh"    -> openssh_frame(dir)
      [] n = "openstack"  -> openstack_frame(dir)
      [] n = "mac"        -> mac_frame(dir)
      [] n = "android_v1" -> android_frame(dir)

\* df.to_sql(table_name, conn, if_exists="replace", index=False).  The store
\* can refuse the write before anything changed ("locked"), or fail after
\* the old table was dropped ("dropped").
Faults == {"none", "locked", "dropped"}

\* Mutant: if_exists="append".
to_sql_append(d, tn, df, fault) ==
    CASE fault = "none"    ->
            [d EXCEPT ![tn] = Table(IF d[tn].exists THEN d[tn].cols ELSE df.cols,
                                    d[tn].rows \o df.rows)]
      [] fault = "locked"  -> d
      [] fault = "dropped" -> [d EXCEPT ![tn] = NoTable]

to_sql(d, tn, df, fault) ==
    CASE fault = "none"    -> [d EXCEPT ![tn] = Table(df.cols, df.rows)]
      [] fault = "locked"  -> d
      [] fault = "dropped" -> [d EXCEPT ![tn] = NoTable]

\* Mutant: no try/except around the branches, the exception reaches main.
load_dataset_to_sqlite_uncaught(d, n, dir, fault) ==
    LET df == branch_frame(n, dir)
    IN  IF df.err # ""
        THEN [db |-> d, persisted |-> FALSE, err |-> df.err, raised |-> TRUE]
        ELSE IF fault # "none"
        THEN [db |-> to_sql(d, table_name(n), df, fault), persisted |-> FALSE,
              err |-> "DatabaseError", raised |-> TRUE]
        ELSE [db |-> to_sql(d, table_name(n), df, fault), persisted |-> TRUE,
              err |-> "", raised |-> FALSE]

\* Mutant: the old table is dropped before the input is parsed.
load_dataset_to_sqlite_drop_first(d, n, dir, fault) ==
    LET df == branch_frame(n, dir)
        e  == [d EXCEPT ![table_name(n)] = NoTable]
    IN  IF df.err # ""
        THEN [db |-> e, persisted |-> FALSE, err |-> df.err, raised |-> FALSE]
        ELSE IF fault # "none"
        THEN [db |-> to_sql(e, table_name(n), df, fault), persisted |-> FALSE,
              err |-> "DatabaseError", raised |-> FALSE]
        ELSE [db |-> to_sql(e, table_name(n), df, fault), persisted |-> TRUE,
              err |-> "", raised |-> FALSE]

\* load_dataset_to_sqlite: what it leaves in the store, whether a table was
\* persisted, the exception it met and whether that exception reaches the
\* caller (except Exception catches every one).
load_dataset_to_sqlite(d, n, dir, fault) ==
    LET df == branch_frame(n, dir)
    IN  IF df.err # ""
        THEN [db |-> d, persisted |-> FALSE, err |-> df.err, raised |-> FALSE]
        ELSE IF fault # "none"
        THEN [db |-> to_sql(d, table_name(n), df, fault), persisted |-> FALSE,
              err |-> "DatabaseError", raised |-> FALSE]
        ELSE [db |-> to_sql(d, table_name(n), df, fault), persisted |-> TRUE,
              err |-> "", raised |-> FALSE]

NoOutcome == [persisted |-> FALSE, err |-> "", raised |-> FALSE]

(***************************************************************************)
(* SpecLoad: load_dataset_to_sqlite called again and again for one source  *)
(* on one unchanged dataset directory, over a store that accepts every     *)
(* write and that may already hold a table of that name.                   *)
(***************************************************************************)
PriorTables ==
    {NoTable,
     Table(<<"LineId", "Content", "team">>, <<Row(7, 0, "old"), Row(7, 0, "old")>>)}

NoOptions == [loaded |-> FALSE, rows |-> <<>>]

NoJob == [script |-> "none", tables |-> <<>>, t |-> 0, op |-> 0]

Idle ==
    /\ pc = "idle" /\ idx = 0 /\ attempted = <<>> /\ batches = 0
    /\ job = NoJob
    /\ filters_df = NoOptions

NoResult == [done |-> FALSE]

NoQuery ==
    /\ filters = <<>> /\ tbl = <<>> /\ limit = 0 /\ result = NoResult

NoStd ==
    /\ sdf = <<>> /\ content_col = "" /\ source = "" /\ std = NoResult

InitLoad ==
    /\ name \in Sources
    /\ raw \in Dirs(name)
    /\ \E prior \in PriorTables :
          db = [t \in TableNames |-> IF t = table_name(name) THEN prior ELSE NoTable]
    /\ outcome = NoOutcome
    /\ runs = 0
    /\ Idle /\ NoQuery /\ NoStd

Load ==
    /\ runs < MaxRuns
    /\ LET r == load_dataset_to_sqlite(db, name, raw, "none")
       IN  /\ db' = r.db
           /\ outcome' = [persisted |-> r.persisted, err |-> r.err, raised |-> r.raised]
    /\ runs' = runs + 1
    /\ UNCHANGED <<name, raw>>
    /\ UNCHANGED <<mainVars, queryVars, stdVars, job, filters_df>>

NextLoad == Load

SpecLoad == InitLoad /\ [][NextLoad]_vars

(***************************************************************************)
(* SpecMain: main, the batch over DATA.  download_and_extract is outside   *)
(* every try block: when it raises, main ends there.                       *)
(***************************************************************************)
GoodLine == [ntok |-> 10, gram |-> TRUE, text |-> "t1"]

SampleFiles == {<<GoodLine>>, <<GoodLine, BlankLine>>}

SampleDirs(n) ==
    {MissingDir}
    \cup {[found |-> TRUE, files |-> IF n = "openstack" THEN <<f, <<>>>> ELSE <<f>>] :
             f \in SampleFiles}

InitMain ==
    /\ db = [t \in TableNames |-> NoTable]
    /\ name = "" /\ raw = MissingDir /\ outcome = NoOutcome /\ runs = 0
    /\ Idle /\ NoQuery /\ NoStd

\* conn = sqlite3.connect(DB_FILE), then the first iteration
Start ==
    /\ pc \in {"idle", "done"}
    /\ batches < MaxBatches
    /\ pc' = "download" /\ idx' = 1 /\ attempted' = <<>>
    /\ batches' = batches + 1
    /\ UNCHANGED <<loadVars, queryVars, stdVars, job, filters_df>>

\* dataset_dir = download_and_extract(name, url)
DownloadAndExtract ==
    /\ pc = "download"
    /\ name' = DATA[idx]
    /\ raw' \in SampleDirs(DATA[idx])
    /\ pc' = "load"
    /\ UNCHANGED <<db, outcome, runs, idx, attempted, batches, queryVars, stdVars, job, filters_df>>

\* requests.get, zipfile or tarfile raises: nothing in main catches it
DownloadRaises ==
    /\ pc = "download"
    /\ pc' = "crashed"
    /\ UNCHANGED <<loadVars, idx, attempted, batches, queryVars, stdVars, job, filters_df>>

\* load_dataset_to_sqlite(conn, name, dataset_dir), then the next iteration
LoadDataset ==
    /\ pc = "load"
    /\ \E fault \in Faults :
          LET r == load_dataset_to_sqlite(db, name, raw, fault)
          IN  /\ db' = r.db
              /\ outcome' = [persisted |-> r.persisted, err |-> r.err, raised |-> r.raised]
              /\ IF r.raised
                 THEN pc' = "crashed" /\ idx' = idx
                 ELSE IF idx < Len(DATA)
                 THEN pc' = "download" /\ idx' = idx + 1
                 ELSE pc' = "close" /\ idx' = idx
    /\ attempted' = Append(attempted, name)
    /\ UNCHANGED <<name, raw, runs, batches, queryVars, stdVars, job, filters_df>>

\* conn.close()
Close ==
    /\ pc = "close"
    /\ pc' = "done"
    /\ UNCHANGED <<loadVars, idx, attempted, batches, queryVars, stdVars, job, filters_df>>

NextMain ==
    \/ Start
    \/ DownloadAndExtract
    \/ DownloadRaises
    \/ LoadDataset
    \/ Close

SpecMain == InitMain /\ [][NextMain]_vars

(***************************************************************************)
(* dash.py: the filter query layer.  A query text is a sequence of tokens. *)
(* A FilterSpec is a dict, modelled as the sequence of its (column, value  *)
(* list) items in insertion order.                                         *)
(***************************************************************************)
SchemaCols == <<"team", "chip_id">>

FilterCols == {"team", "chip_id", "owner"}

FilterVals == {"RTL", "E-ACUTE"}

Null == "<NULL>"

CellVals == {Null, "Rtl", "E-ACUTE"}

\* "E-ACUTE" stands for the one-letter string U+00C9, "e-acute" for U+00E9.
\* str.lower() of Python: every cased letter of Unicode
py_lower(v) ==
    CASE v = "RTL" -> "rtl"
      [] v = "Rtl" -> "rtl"
      [] v = "E-ACUTE"   -> "e-acute"
      [] v = " Rtl " -> " rtl "
      [] v = "NONE"  -> "none"
      [] OTHER     -> v

\* LOWER() of SQLite: the letters A-Z only
sql_lower(v) ==
    CASE v = "RTL" -> "rtl"
      [] v = "Rtl" -> "rtl"
      [] v = " Rtl " -> " rtl "
      [] v = "NONE"  -> "none"
      [] OTHER     -> v

RECURSIVE join(_, _)
\* sep.join(parts), parts a sequence of token sequences
join(sep, parts) ==
    IF parts = <<>> THEN <<>>
    ELSE IF Len(parts) = 1 THEN parts[1]
    ELSE parts[1] \o <<sep>> \o join(sep, Tail(parts))

RECURSIVE Flatten(_)
Flatten(ss) == IF ss = <<>> THEN <<>> ELSE Head(ss) \o Flatten(Tail(ss))

HasVals(item) == item.vals # <<>>

\* Mutant: the values are written into the IN list, nothing is bound.
clause_interpolating(item) ==
    <<"LOWER(", item.col, ") IN (">>
    \o join(",", [i \in 1..Len(item.vals) |-> <<py_lower(item.vals[i])>>])
    \o <<")">>

\* f"LOWER({col}) IN ({placeholders})", placeholders = ",".join(["?"] * len(vals))
clause(item) ==
    <<"LOWER(", item.col, ") IN (">>
    \o join(",", [i \in 1..Len(item.vals) |-> <<"?">>])
    \o <<")">>

build_where_clause(f) ==
    LET used == SelectSeq(f, HasVals)
        clauses == [i \in 1..Len(used) |-> clause(used[i])]
        params == Flatten([i \in 1..Len(used) |->
                      [j \in 1..Len(used[i].vals) |-> py_lower(used[i].vals[j])]])
    IN  [where |-> IF clauses # <<>> THEN <<" WHERE ">> \o join(" AND ", clauses)
                   ELSE <<>>,
         params |-> params]

InSchema(c) == \E k \in 1..Len(SchemaCols) : SchemaCols[k] = c

\* What the store does with SELECT * FROM t WHERE LOWER(c) IN (?, ..) AND ..
\* for the items that have values: a NULL cell satisfies no IN.
Selected(row, used) ==
    \A i \in 1..Len(used) :
        /\ row[used[i].col] # Null
        /\ \E j \in 1..Len(used[i].vals) :
              sql_lower(row[used[i].col]) = py_lower(used[i].vals[j])

\* load_filtered_data: the query text is built and handed to the store in
\* every case; the store rejects a text that names a column the table lacks.
load_filtered_data(t, f, lim) ==
    LET w == build_where_clause(f)
        limit_clause == IF lim # 0 THEN <<"LIMIT ", lim>> ELSE <<>>
        query == <<"SELECT * FROM ", "t">> \o w.where \o limit_clause \o <<";">>
        used == SelectSeq(f, HasVals)
        hit == SelectSeq(t, LAMBDA r : Selected(r, used))
    IN  IF \E i \in 1..Len(used) : ~InSchema(used[i].col)
        THEN [done |-> TRUE, err |-> "no such column", submitted |-> TRUE,
              query |-> query, params |-> w.params, rows |-> <<>>]
        ELSE [done |-> TRUE, err |-> "", submitted |-> TRUE,
              query |-> query, params |-> w.params,
              rows |-> IF lim # 0 THEN SubSeq(hit, 1, Min(lim, Len(hit))) ELSE hit]

ValLists == SeqsUpTo(FilterVals, MaxVals)

DistinctCols(f) == \A i, j \in 1..Len(f) : f[i].col = f[j].col => i = j

FilterSpecs ==
    {f \in SeqsUpTo([col : FilterCols, vals : ValLists], Cardinality(FilterCols)) :
        DistinctCols(f)}

(***************************************************************************)
(* SpecBuild: build_where_clause applied to every FilterSpec               *)
(***************************************************************************)
InitBuild ==
    /\ filters \in FilterSpecs
    /\ tbl = <<>> /\ limit = 0 /\ result = NoResult
    /\ db = [t \in TableNames |-> NoTable]
    /\ name = "" /\ raw = MissingDir /\ outcome = NoOutcome /\ runs = 0
    /\ Idle /\ NoStd

Build ==
    /\ ~result.done
    /\ LET w == build_where_clause(filters)
       IN  result' = [done |-> TRUE, where |-> w.where, params |-> w.params]
    /\ UNCHANGED <<filters, tbl, limit, loadVars, mainVars, stdVars, job, filters_df>>

NextBuild == Build

SpecBuild == InitBuild /\ [][NextBuild]_vars

(***************************************************************************)
(* SpecQuery: load_filtered_data applied to a table, a FilterSpec of at    *)
(* most two columns and a limit                                            *)
(***************************************************************************)
QueryRows == [team : CellVals, chip_id : CellVals]

QueryValLists == {<<>>, <<"RTL">>, <<"E-ACUTE">>, <<"RTL", "E-ACUTE">>}

QueryFilters ==
    {f \in SeqsUpTo([col : FilterCols, vals : QueryValLists], 2) : DistinctCols(f)}

InitQuery ==
    /\ tbl \in SeqsUpTo(QueryRows, MaxRows)
    /\ filters \in QueryFilters
    /\ limit \in 0..MaxLimit
    /\ result = NoResult
    /\ db = [t \in TableNames |-> NoTable]
    /\ name = "" /\ raw = MissingDir /\ outcome = NoOutcome /\ runs = 0
    /\ Idle /\ NoStd

Query ==
    /\ ~result.done
    /\ result' = load_filtered_data(tbl, filters, limit)
    /\ UNCHANGED <<filters, tbl, limit, loadVars, mainVars, stdVars, job, filters_df>>

NextQuery == Query

SpecQuery == InitQuery /\ [][NextQuery]_vars

(***************************************************************************)
(* SpecOptions: the sidebar offers the options get_filter_options found,   *)
(* at most one of them is selected and load_filtered_data runs             *)
(***************************************************************************)
DefaultLimit == 500000

\* TRIM() of SQLite: the spaces at both ends; NULL stays NULL
sql_trim(v) ==
    CASE v = " Rtl " -> "Rtl"
      [] OTHER       -> v

\* Series.astype(str) on the object column read_sql_query returns: None
\* becomes the text "None"
astype_str(v) ==
    CASE v = Null -> "None"
      [] OTHER    -> v

\* str.strip() of Python: the whitespace at both ends
py_strip(v) ==
    CASE v = " Rtl " -> "Rtl"
      [] OTHER       -> v

\* str.upper() of Python: every cased letter of Unicode
py_upper(v) ==
    CASE v = "Rtl"     -> "RTL"
      [] v = "rtl"     -> "RTL"
      [] v = " Rtl "   -> " RTL "
      [] v = "None"    -> "NONE"
      [] v = "e-acute" -> "E-ACUTE"
      [] OTHER         -> v

\* Series.replace("NAN", ""): a cell that is exactly "NAN"
replace_NAN(v) == IF v = "NAN" THEN "" ELSE v

\* .astype(str).str.strip().str.upper().replace("NAN", "")
normalize(v) == replace_NAN(py_upper(py_strip(astype_str(v))))

\* WHERE c1 IS NOT NULL OR c2 IS NOT NULL ..
AnyNotNull(row) == \E k \in 1..Len(SchemaCols) : row[SchemaCols[k]] # Null

\* SELECT DISTINCT: the first of equal rows stays
Distinct(rs) ==
    SelectSeq([i \in 1..Len(rs) |-> [at |-> i, row |-> rs[i]]],
              LAMBDA e : \A j \in 1..(e.at - 1) : rs[j] # e.row)

get_filter_options(t) ==
    LET kept    == SelectSeq(t, AnyNotNull)
        trimmed == [i \in 1..Len(kept) |->
                       [c \in DOMAIN kept[i] |-> sql_trim(kept[i][c])]]
        found   == Distinct(trimmed)
    IN  [i \in 1..Len(found) |->
            [c \in DOMAIN found[i].row |-> normalize(found[i].row[c])]]

\* filters_df[col].dropna().str.upper().unique(): no cell is missing after
\* astype(str)
options(df, col) == {py_upper(df[i][col]) : i \in 1..Len(df)}

\* active_filters after at most one option was picked in the sidebar
Selections(df) ==
    {<<>>} \cup
    UNION {{<<[col |-> SchemaCols[k], vals |-> <<o>>]>> : o \in options(df, SchemaCols[k])} :
              k \in 1..Len(SchemaCols)}

OptionCells == {Null, "Rtl", " Rtl ", "E-ACUTE"}

OptionRows == [team : OptionCells, chip_id : OptionCells]

InitOptions ==
    /\ tbl \in SeqsUpTo(OptionRows, MaxRows)
    /\ filters = <<>>
    /\ limit = DefaultLimit
    /\ result = NoResult
    /\ db = [t \in TableNames |-> NoTable]
    /\ name = "" /\ raw = MissingDir /\ outcome = NoOutcome /\ runs = 0
    /\ Idle /\ NoStd

GetFilterOptions ==
    /\ ~filters_df.loaded
    /\ filters_df' = [loaded |-> TRUE, rows |-> get_filter_options(tbl)]
    /\ UNCHANGED <<queryVars, loadVars, mainVars, stdVars, job>>

SelectOption ==
    /\ filters_df.loaded
    /\ ~result.done
    /\ \E f \in Selections(filters_df.rows) :
          /\ filters' = f
          /\ result' = load_filtered_data(tbl, f, limit)
    /\ UNCHANGED <<tbl, limit, filters_df, loadVars, mainVars, stdVars, job>>

NextOptions == GetFilterOptions \/ SelectOption

SpecOptions == InitOptions /\ [][NextOptions]_vars

(***************************************************************************)
(* logs.py: standardize.  A frame is its column names and, per row, the    *)
(* cell of every column; a Content is a sequence of space-joined words.    *)
(***************************************************************************)
HasCol(cols, c) == \E k \in 1..Len(cols) : cols[k] = c

ColIndex(cols, c) == CHOOSE k \in 1..Len(cols) : cols[k] = c

standardize(df, col, src) ==
    LET cells(i) == [j \in 1..Len(df.cols) |-> <<df.rows[i][j]>>]
        \* if content_col not in df.columns: df["Content"] = <all cells joined>,
        \* a new last column, or the cells of the Content column there is
        fallback == ~HasCol(df.cols, col)
        cols1 == IF fallback /\ ~HasCol(df.cols, "Content")
                 THEN df.cols \o <<"Content">>
                 ELSE df.cols
        rows1 == [i \in 1..Len(df.rows) |->
                     IF ~fallback THEN cells(i)
                     ELSE IF HasCol(df.cols, "Content")
                     THEN [cells(i) EXCEPT ![ColIndex(df.cols, "Content")] = df.rows[i]]
                     ELSE cells(i) \o <<df.rows[i]>>]
    IN  \* df = df[[content_col]].rename(columns={content_col: "Content"})
        IF ~HasCol(cols1, col)
        THEN [done |-> TRUE, err |-> "KeyError", rows |-> <<>>]
        ELSE [done |-> TRUE, err |-> "",
              rows |-> [i \in 1..Len(rows1) |->
                           [LineId |-> i,
                            Content |-> rows1[i][ColIndex(cols1, col)],
                            EventId |-> "None",
                            EventTemplate |-> "None",
                            Source |-> src]]]

StdColNames == {"Message", "Content", "Level"}

StdCells == {"a", "b"}

StdFrames ==
    {[cols |-> c, rows |-> r] :
        c \in {q \in SeqsUpTo(StdColNames, 2) : q # <<>> /\ (Len(q) = 2 => q[1] # q[2])},
        r \in SeqsUpTo(SeqsUpTo(StdCells, 2), MaxLines)}

(***************************************************************************)
(* SpecStd: standardize applied to a frame, a content column name and a    *)
(* source name                                                             *)
(***************************************************************************)
InitStd ==
    /\ sdf \in {d \in StdFrames : \A i \in 1..Len(d.rows) : Len(d.rows[i]) = Len(d.cols)}
    /\ content_col \in StdColNames \cup {"Text"}
    /\ source \in {"mac", "unknown"}
    /\ std = NoResult
    /\ db = [t \in TableNames |-> NoTable]
    /\ name = "" /\ raw = MissingDir /\ outcome = NoOutcome /\ runs = 0
    /\ Idle /\ NoQuery

Standardize ==
    /\ ~std.done
    /\ std' = standardize(sdf, content_col, source)
    /\ UNCHANGED <<sdf, content_col, source, loadVars, mainVars, queryVars, job, filters_df>>

NextStd == Standardize

SpecStd == InitStd /\ [][NextStd]_vars

(***************************************************************************)
(* metadata_init.py and metadata_enrich.py.  In logs.db the dimension      *)
(* tables live beside the logs tables; a dimension table is its one column *)
(* of values.  ALTER TABLE ADD COLUMN gives every row a NULL cell of that  *)
(* name, so an enriched row is the parser's row with more fields.          *)
(***************************************************************************)
MetaColumns ==
    <<"chip_id", "design_block", "team", "simulation_id", "test_condition",
      "impact_score", "metadata_source", "metadata_version",
      "metadata_assigned_at", "metadata_assigned_by", "enrichment_status">>

\* the values populate_dim_tables_if_empty inserts, one or two of each
DimValues ==
    [dim_chip           |-> <<"Chip_A1">>,
     dim_design_block   |-> <<"Cache">>,
     dim_team           |-> <<"RTL_Team", "DFT_Team">>,
     dim_test_condition |-> <<"TC001">>,
     dim_simulation     |-> <<"SIM0001">>,
     dim_business       |-> <<"Low">>]

DimNames == DOMAIN DimValues

StoreNames == TableNames \cup DimNames \cup {"metadata_audit"}

LogTableSeq == [i \in 1..Len(DATA) |-> table_name(DATA[i])]

\* SELECT name FROM sqlite_master WHERE type='table' AND name LIKE 'logs_%'
get_log_tables(d) == SelectSeq(LogTableSeq, LAMBDA t : d[t].exists)

\* CREATE TABLE IF NOT EXISTS for the six dimension tables and metadata_audit
ensure_dim_tables(d) ==
    [t \in DOMAIN d |->
        IF t \in DimNames \cup {"metadata_audit"} /\ ~d[t].exists
        THEN Table(<<t>>, <<>>)
        ELSE d[t]]

\* every other dimension is filled inside the "dim_chip is empty" branch
populate_dim_tables_if_empty(d) ==
    IF d["dim_chip"].rows # <<>> THEN d
    ELSE [t \in DOMAIN d |->
             IF t \in DimNames /\ d[t].rows = <<>>
             THEN Table(d[t].cols, DimValues[t])
             ELSE d[t]]

column_exists(d, table, column) == HasCol(d[table].cols, column)

SetCell(r, c, v) == [f \in DOMAIN r \cup {c} |-> IF f = c THEN v ELSE r[f]]

\* ALTER TABLE {table} ADD COLUMN {name} {typ}
add_column(t, c) ==
    [cols |-> t.cols \o <<c>>,
     rows |-> [i \in 1..Len(t.rows) |-> SetCell(t.rows[i], c, Null)],
     exists |-> TRUE]

RECURSIVE add_columns(_, _)
add_columns(t, cs) ==
    IF cs = <<>> THEN t
    ELSE add_columns(IF HasCol(t.cols, Head(cs)) THEN t ELSE add_column(t, Head(cs)),
                     Tail(cs))

add_metadata_columns(d, table) ==
    [d EXCEPT ![table] = add_columns(d[table], MetaColumns)]

\* what one assignment call leaves in the store, and the sqlite3 error it
\* raised; an error leaves the store as it was (nothing was committed)
Done(d) == [db |-> d, err |-> ""]

Fails(d, e) == [db |-> d, err |-> e]

\* the index random.choice picks in the dimension's values, per row
Choices(d, table, dim_table) ==
    IF ~d[table].exists \/ ~d[dim_table].exists \/ d[dim_table].rows = <<>>
    THEN {<<>>}
    ELSE [1..Len(d[table].rows) -> 1..Len(d[dim_table].rows)]

\* Mutant: the UPDATE names the Content column instead of target_col.
assign_random_into_Content(d, table, dim_table, target_col, ch) ==
    IF ~d[dim_table].exists THEN Fails(d, "no such table")
    ELSE IF d[dim_table].rows = <<>> THEN Done(d)
    ELSE IF ~d[table].exists THEN Fails(d, "no such table")
    ELSE Done([d EXCEPT ![table].rows =
                  [i \in 1..Len(d[table].rows) |->
                      SetCell(d[table].rows[i], "Content", d[dim_table].rows[ch[i]])]])

\* values = SELECT .. FROM dim; for rid in rowids:
\*     UPDATE {table} SET {target_col}=? WHERE rowid=?  (random.choice(values))
assign_random(d, table, dim_table, target_col, ch) ==
    IF ~d[dim_table].exists THEN Fails(d, "no such table")
    ELSE IF d[dim_table].rows = <<>> THEN Done(d)
    ELSE IF ~d[table].exists THEN Fails(d, "no such table")
    ELSE IF d[table].rows # <<>> /\ ~HasCol(d[table].cols, target_col)
    THEN Fails(d, "no such column")
    ELSE Done([d EXCEPT ![table].rows =
                  [i \in 1..Len(d[table].rows) |->
                      SetCell(d[table].rows[i], target_col, d[dim_table].rows[ch[i]])]])

assign_from_dim_rowwise(d, table, dim_table, target_col, ch) ==
    assign_random(d, table, dim_table, target_col, ch)

assign_test_condition_random(d, table, ch) ==
    assign_random(d, table, "dim_test_condition", "test_condition", ch)

StatusColumns ==
    <<"enrichment_status", "metadata_assigned_at", "metadata_assigned_by",
      "metadata_version">>

StatusValue(c) ==
    CASE c = "enrichment_status"    -> "complete"
      [] c = "metadata_assigned_at" -> "utcnow"
      [] c = "metadata_assigned_by" -> "metadata_enrich.py"
      [] c = "metadata_version"     -> "v1.0"

\* UPDATE {table} SET enrichment_status=.., metadata_assigned_at=?, ..
assign_enrichment_metadata(d, table) ==
    IF ~d[table].exists THEN Fails(d, "no such table")
    ELSE IF \E k \in 1..Len(StatusColumns) : ~HasCol(d[table].cols, StatusColumns[k])
    THEN Fails(d, "no such column")
    ELSE Done([d EXCEPT ![table].rows =
                  [i \in 1..Len(d[table].rows) |->
                      [f \in DOMAIN d[table].rows[i] |->
                          IF \E k \in 1..Len(StatusColumns) : StatusColumns[k] = f
                          THEN StatusValue(f)
                          ELSE d[table].rows[i][f]]]])

\* the calls of metadata_enrich.main for one table, in order
EnrichOps ==
    <<[dim |-> "dim_chip",           col |-> "chip_id"],
      [dim |-> "dim_team",           col |-> "team"],
      [dim |-> "dim_design_block",   col |-> "design_block"],
      [dim |-> "dim_simulation",     col |-> "simulation_id"],
      [dim |-> "dim_business",       col |-> "impact_score"],
      [dim |-> "dim_test_condition", col |-> "test_condition"]>>

(***************************************************************************)
(* dash.py: what the dashboard reads at start                              *)
(***************************************************************************)
\* SELECT name FROM sqlite_master WHERE type='table' AND name LIKE 'logs_%'
get_tables(d) == SelectSeq(LogTableSeq, LAMBDA t : d[t].exists)

\* the columns the SELECT DISTINCT of get_filter_options names
OptionColumns == <<"chip_id", "design_block", "team", "impact_score", "test_condition">>

\* the store rejects the query when the table lacks one of them
get_filter_options_fails(t) ==
    \E k \in 1..Len(OptionColumns) : ~HasCol(t.cols, OptionColumns[k])

(***************************************************************************)
(* SpecPipe: the three scripts run one after another, in any order and any *)
(* number of times, over one logs.db: an ingestion of one source, the      *)
(* whole of metadata_init.main, the whole of metadata_enrich.main.         *)
(***************************************************************************)
PipeSources == {DATA[i] : i \in 1..MaxSources}

TwoLines == <<GoodLine, [ntok |-> 10, gram |-> TRUE, text |-> "t2"]>>

PipeDirs(n) ==
    SampleDirs(n)
    \cup {[found |-> TRUE,
           files |-> IF n = "openstack" THEN <<<<GoodLine>>, <<GoodLine>>>>
                     ELSE <<TwoLines>>]}

ScriptFailed(e) == [persisted |-> FALSE, err |-> e, raised |-> TRUE]

InitPipe ==
    /\ db = [t \in StoreNames |-> NoTable]
    /\ name = "" /\ raw = MissingDir /\ outcome = NoOutcome /\ runs = 0
    /\ Idle /\ NoQuery /\ NoStd

\* load_dataset_to_sqlite(conn, name, dataset_dir) for one source
Ingest ==
    /\ job = NoJob
    /\ \E n \in PipeSources : \E dir \in PipeDirs(n) : \E fault \in Faults :
          LET r == load_dataset_to_sqlite(db, n, dir, fault)
          IN  /\ db' = r.db
              /\ name' = n
              /\ raw' = dir
              /\ outcome' = [persisted |-> r.persisted, err |-> r.err, raised |-> r.raised]
    /\ UNCHANGED <<runs, mainVars, queryVars, stdVars, job, filters_df>>

\* metadata_init.main up to the loop over the logs tables
MetadataInitStart ==
    /\ job = NoJob
    /\ db' = populate_dim_tables_if_empty(ensure_dim_tables(db))
    /\ job' = IF get_log_tables(db) = <<>> THEN NoJob
              ELSE [script |-> "init", tables |-> get_log_tables(db), t |-> 1, op |-> 0]
    /\ outcome' = NoOutcome
    /\ UNCHANGED <<name, raw, runs, mainVars, queryVars, stdVars, filters_df>>

NextTable == IF job.t < Len(job.tables) THEN [job EXCEPT !.t = job.t + 1, !.op = 1] ELSE NoJob

\* for t in logs: add_metadata_columns(conn, t)
AddMetadataColumns ==
    /\ job.script = "init"
    /\ db' = add_metadata_columns(db, job.tables[job.t])
    /\ job' = IF job.t < Len(job.tables) THEN [job EXCEPT !.t = job.t + 1] ELSE NoJob
    /\ UNCHANGED <<name, raw, outcome, runs, mainVars, queryVars, stdVars, filters_df>>

\* metadata_enrich.main up to the loop over the logs tables
MetadataEnrichStart ==
    /\ job = NoJob
    /\ get_log_tables(db) # <<>>
    /\ job' = [script |-> "enrich", tables |-> get_log_tables(db), t |-> 1, op |-> 1]
    /\ outcome' = NoOutcome
    /\ UNCHANGED <<db, name, raw, runs, mainVars, queryVars, stdVars, filters_df>>

\* an sqlite3 error is caught nowhere in metadata_enrich: the script ends
AfterCall(r, next) ==
    /\ db' = r.db
    /\ IF r.err # ""
       THEN job' = NoJob /\ outcome' = ScriptFailed(r.err)
       ELSE job' = next /\ outcome' = outcome

AssignFromDim ==
    /\ job.script = "enrich"
    /\ job.op \in 1..5
    /\ \E ch \in Choices(db, job.tables[job.t], EnrichOps[job.op].dim) :
          AfterCall(assign_from_dim_rowwise(db, job.tables[job.t], EnrichOps[job.op].dim,
                                            EnrichOps[job.op].col, ch),
                    [job EXCEPT !.op = job.op + 1])
    /\ UNCHANGED <<name, raw, runs, mainVars, queryVars, stdVars, filters_df>>

AssignTestCondition ==
    /\ job.script = "enrich"
    /\ job.op = 6
    /\ \E ch \in Choices(db, job.tables[job.t], "dim_test_condition") :
          AfterCall(assign_test_condition_random(db, job.tables[job.t], ch),
                    [job EXCEPT !.op = 7])
    /\ UNCHANGED <<name, raw, runs, mainVars, queryVars, stdVars, filters_df>>

AssignEnrichmentMetadata ==
    /\ job.script = "enrich"
    /\ job.op = 7
    /\ AfterCall(assign_enrichment_metadata(db, job.tables[job.t]), NextTable)
    /\ UNCHANGED <<name, raw, runs, mainVars, queryVars, stdVars, filters_df>>

NextPipe ==
    \/ Ingest
    \/ MetadataInitStart
    \/ AddMetadataColumns
    \/ MetadataEnrichStart
    \/ AssignFromDim
    \/ AssignTestCondition
    \/ AssignEnrichmentMetadata

SpecPipe == InitPipe /\ [][NextPipe]_vars

(***************************************************************************)
(* Properties of the loader                                                *)
(***************************************************************************)
LoadedTable == db[table_name(name)]

AllLines(dir) ==
    IF ~dir.found THEN <<>>
    ELSE IF Len(dir.files) = 2 THEN dir.files[1] \o dir.files[2]
    ELSE dir.files[1]

\* The lines a format parses: the regular expression matches (mac,
\* android_v1, openstack), six tokens (openssh), a non-blank line (bgl).
Parsed(n, l) ==
    CASE n = "bgl"     -> l.ntok > 0
      [] n = "openssh" -> l.ntok >= 6
      [] OTHER         -> l.gram

ParsedCount(n, dir) ==
    Cardinality({i \in 1..Len(AllLines(dir)) : Parsed(n, AllLines(dir)[i])})

\* C1: whenever load_dataset_to_sqlite persisted a table, for whichever
\* source, the LineId of its i-th row is i, and the number of rows is the
\* number of lines of the input that were parsed (not skipped).
C1_LineIdContiguous ==
    outcome.persisted =>
        /\ LoadedTable.exists
        /\ Len(LoadedTable.rows) = ParsedCount(name, raw)
        /\ \A i \in 1..Len(LoadedTable.rows) : LoadedTable.rows[i].LineId = i

\* a table of one row was persisted from an input of two lines, one skipped
C1_Witness ==
    /\ outcome.persisted
    /\ raw.found
    /\ Len(LoadedTable.rows) = 1
    /\ Len(AllLines(raw)) = 2

\* C2: a second load_dataset_to_sqlite of the same source on the same input
\* leaves the store exactly as the first left it, whatever table the store
\* held before the first.
C2_Idempotent ==
    [][(runs >= 1 /\ runs' = runs + 1) => db' = db]_vars

\* a second run on the same input has persisted a non-empty table
C2_Witness ==
    /\ runs = 2
    /\ outcome.persisted
    /\ Len(LoadedTable.rows) >= 1

\* C3: in main, a load_dataset_to_sqlite that fails never ends the batch:
\* the loop goes on to the next source, after the last one the connection
\* is closed, and a batch that is done has handed every source of DATA to
\* the loader, in order.
C3_BatchContinues ==
    /\ [](pc = "done" => attempted = DATA)
    /\ [][pc = "load" =>
             /\ attempted' = Append(attempted, DATA[idx])
             /\ (idx < Len(DATA) => pc' = "download" /\ idx' = idx + 1)
             /\ (idx = Len(DATA) => pc' = "close")]_vars

\* the first batch is done although bgl failed in it and a later source loaded
C3_Witness ==
    /\ pc = "done"
    /\ batches = 1
    /\ ~db[table_name("bgl")].exists
    /\ db[table_name("openssh")].exists

\* C4: a malformed line never fails a source's ingestion: whenever the input
\* file is there, the load ends without error and persists a table.
C4_OnlyMissingFileFails ==
    (runs >= 1 /\ raw.found) => (outcome.err = "" /\ outcome.persisted)

StructuredRows(dir) == Cardinality({i \in 1..Len(dir.files[1]) : dir.files[1][i].ntok > 0})

\* C5: in the bgl branch, when the structured pass yields another number of
\* rows than the file has lines, the load fails and the store keeps the
\* table it had; a table is persisted only when the two numbers agree, and
\* it has that number of rows.
C5_BglCountsAgree ==
    (name = "bgl" /\ runs >= 1 /\ raw.found) =>
        /\ StructuredRows(raw) # Len(raw.files[1]) =>
              (~outcome.persisted /\ outcome.err # "" /\ LoadedTable \in PriorTables)
        /\ outcome.persisted =>
              /\ StructuredRows(raw) = Len(raw.files[1])
              /\ Len(LoadedTable.rows) = Len(raw.files[1])

\* a bgl load whose passes disagreed has failed
C5_Witness ==
    /\ name = "bgl" /\ runs >= 1 /\ raw.found
    /\ StructuredRows(raw) # Len(raw.files[1])
    /\ ~outcome.persisted

(***************************************************************************)
(* Properties of the filter query layer                                    *)
(***************************************************************************)
Used == SelectSeq(filters, HasVals)

Count(text, tok) == Cardinality({i \in 1..Len(text) : text[i] = tok})

RECURSIVE SplitAt(_, _)
\* the pieces of a token sequence between the occurrences of sep
SplitAt(text, sep) ==
    IF \A i \in 1..Len(text) : text[i] # sep THEN <<text>>
    ELSE LET k == CHOOSE i \in 1..Len(text) :
                      text[i] = sep /\ \A j \in 1..(i - 1) : text[j] # sep
         IN  <<SubSeq(text, 1, k - 1)>> \o SplitAt(SubSeq(text, k + 1, Len(text)), sep)

ClauseTexts == IF result.where = <<>> THEN <<>> ELSE SplitAt(Tail(result.where), " AND ")

ValueTexts ==
    UNION {UNION {{filters[i].vals[j], py_lower(filters[i].vals[j])} :
                     j \in 1..Len(filters[i].vals)} : i \in 1..Len(filters)}

\* C6: build_where_clause yields one clause per column with a non-empty
\* value list, in column order; a clause holds one "?" per value of its
\* column; the parameters are the lower-cased values in column order then
\* value order, as many as there are "?"; no value is part of the text; and
\* with no non-empty value list the text and the parameters are empty.
C6_WhereClauseShape ==
    result.done =>
        /\ Len(ClauseTexts) = Len(Used)
        /\ Count(result.where, "LOWER(") = Len(Used)
        /\ \A k \in 1..Len(ClauseTexts) :
              /\ Count(ClauseTexts[k], "?") = Len(Used[k].vals)
              /\ ClauseTexts[k][2] = Used[k].col
        /\ result.params =
              Flatten([i \in 1..Len(Used) |->
                  [j \in 1..Len(Used[i].vals) |-> py_lower(Used[i].vals[j])]])
        /\ Len(result.params) = Count(result.where, "?")
        /\ \A i \in 1..Len(result.where) : result.where[i] \notin ValueTexts
        /\ (Used = <<>> => result.where = <<>> /\ result.params = <<>>)

\* a FilterSpec of three columns was built: one with two values, one with
\* one value, one with an empty value list
C6_Witness ==
    /\ result.done
    /\ Len(filters) = 3
    /\ Len(Used) = 2
    /\ Len(result.params) = 3
    /\ \E i \in 1..Len(filters) : Len(filters[i].vals) = 2

\* one lower-casing for stored values and accepted values alike
Accepts(row, item) ==
    /\ row[item.col] # Null
    /\ \E j \in 1..Len(item.vals) : py_lower(row[item.col]) = py_lower(item.vals[j])

\* C7: with a limit larger than the table and every filtered column in the
\* schema, load_filtered_data returns exactly the rows that, for every
\* column with a non-empty value list, hold a value whose lower-casing is
\* the lower-casing of an accepted value.
C7_ExactlyMatchingRows ==
    (/\ result.done
     /\ limit > Len(tbl)
     /\ \A i \in 1..Len(Used) : InSchema(Used[i].col)) =>
        /\ result.err = ""
        /\ result.rows =
              SelectSeq(tbl, LAMBDA r : \A i \in 1..Len(Used) : Accepts(r, Used[i]))

\* C8: a FilterSpec that names, with a non-empty value list, a column the
\* table lacks fails with "invalid column" before any query reaches the
\* store, and no query text names that column.
C8_InvalidColumnFailsFast ==
    (result.done /\ \E i \in 1..Len(Used) : ~InSchema(Used[i].col)) =>
        /\ result.err = "invalid column"
        /\ ~result.submitted
        /\ \A i \in 1..Len(Used) :
              ~InSchema(Used[i].col) => Count(result.query, Used[i].col) = 0

Matching == Len(SelectSeq(tbl, LAMBDA r : Selected(r, Used)))

\* C9: for every limit >= 0 load_filtered_data returns exactly
\* min(limit, number of rows the FilterSpec selects) rows.
C9_RowCap ==
    (result.done /\ result.err = "") => Len(result.rows) = Min(limit, Matching)

(***************************************************************************)
(* Properties of standardize                                               *)
(***************************************************************************)
\* C10: for a content column name that the frame lacks, standardize does
\* not fail; the Content of its i-th record is the space-joined cells of the
\* i-th row in column order, its LineId is i and its Source the given name.
C10_FallbackForAnyAbsentColumn ==
    (std.done /\ ~HasCol(sdf.cols, content_col)) =>
        /\ std.err = ""
        /\ Len(std.rows) = Len(sdf.rows)
        /\ \A i \in 1..Len(std.rows) :
              /\ std.rows[i].Content = sdf.rows[i]
              /\ std.rows[i].LineId = i
              /\ std.rows[i].Source = source

(***************************************************************************)
(* Properties of the pipeline                                              *)
(***************************************************************************)
\* the columns enrichment may write
EnrichmentColumns ==
    {"chip_id", "team", "design_block", "simulation_id", "impact_score",
     "test_condition", "enrichment_status", "metadata_assigned_at",
     "metadata_assigned_by", "metadata_version"}

FrameKept(t, u) ==
    /\ u.exists = t.exists
    /\ u.cols = t.cols
    /\ Len(u.rows) = Len(t.rows)
    /\ \A i \in 1..Len(t.rows) :
          /\ DOMAIN u.rows[i] = DOMAIN t.rows[i]
          /\ \A f \in DOMAIN t.rows[i] :
                f \notin EnrichmentColumns => u.rows[i][f] = t.rows[i][f]

\* C11: every call metadata_enrich.main makes (assign_from_dim_rowwise,
\* assign_test_condition_random, assign_enrichment_metadata) leaves, in every
\* logs table, the columns, the number of rows and every cell outside the
\* enrichment columns (LineId, Content and the parser's columns) as they were.
C11_EnrichmentFrame ==
    [][job.script = "enrich" => \A t \in TableNames : FrameKept(db[t], db'[t])]_vars

\* a table of two rows is fully enriched, its rows with different teams
C11_Witness ==
    \E t \in TableNames :
        /\ db[t].exists
        /\ Len(db[t].rows) = 2
        /\ "enrichment_status" \in DOMAIN db[t].rows[1]
        /\ db[t].rows[1].enrichment_status = "complete"
        /\ db[t].rows[1].team # db[t].rows[2].team
        /\ db[t].rows[1].LineId = 1 /\ db[t].rows[2].LineId = 2
        /\ db[t].rows[2].Content = "t2"

\* the exceptions a branch raises before it reaches to_sql
BeforePersistence == {"FileNotFoundError", "IndexError", "ValueError"}

\* C13: a load_dataset_to_sqlite that fails before persistence (file
\* missing, parse error, row-count mismatch) leaves every table of the
\* store as it was: the source's own table, whatever an earlier run
\* or the metadata scripts put there, and every other table.
C13_FailedLoadKeepsTables ==
    [][(job = NoJob /\ job' = NoJob /\ outcome'.err \in BeforePersistence)
          => db' = db]_vars

\* the load of a source has just failed and the two-row table with the
\* metadata columns that the source had is still there
C13_Witness ==
    /\ job = NoJob
    /\ outcome.err \in BeforePersistence
    /\ db[table_name(name)].exists
    /\ Len(db[table_name(name)].rows) = 2
    /\ ~get_filter_options_fails(db[table_name(name)])

HasOptionColumns(t) == t.exists /\ ~get_filter_options_fails(t)

\* C14: between the runs of the pipeline every table get_tables lists has
\* the columns get_filter_options selects, and a table that has them keeps
\* them for as long as it exists, a later re-ingestion included.
C14_ListedTablesHaveMetadata ==
    /\ [](job = NoJob =>
            \A i \in 1..Len(get_tables(db)) :
                ~get_filter_options_fails(db[get_tables(db)[i]]))
    /\ [][\A t \in TableNames :
             (HasOptionColumns(db[t]) /\ db'[t].exists) => HasOptionColumns(db'[t])]_vars

\* the option the sidebar shows for a stored value
option_of(v) == py_upper(normalize(sql_trim(v)))

\* C12: an option of the sidebar, selected as the only filter, makes
\* load_filtered_data return every row get_filter_options read whose stored
\* value in that column produced the option.
C12_OptionsReturnTheirRows ==
    (filters_df.loaded /\ result.done /\ Len(filters) = 1) =>
        \A i \in 1..Len(tbl) :
            (AnyNotNull(tbl[i]) /\ option_of(tbl[i][filters[1].col]) = filters[1].vals[1])
                => \E j \in 1..Len(result.rows) : result.rows[j] = tbl[i]

====
